---------------------------- MODULE Spec2Model ----------------------------
(***************************************************************************)
(* we_clap: the WeCommand and WeParser wrappers around clap::Command and   *)
(* clap::Parser (src/src/lib.rs).  A process is built for one target       *)
(* (native or wasm32), is started with one command line, and calls the     *)
(* wrappers.  Every completed call is recorded with what it returned and   *)
(* with the writes and the process exit it caused, in order.               *)
(***************************************************************************)
EXTENDS Naturals, Sequences, FiniteSets, Bags

VARIABLES
    target,            \* "native" | "wasm32": cfg(target_arch) of the running build
    debug_assertions,  \* the build carries clap's debug assertions
    cmdline,           \* the argument sequence the environment supplies
    cmd,               \* the clap::Command (grammar) the program defines
    cmd_owned,         \* the caller still holds the Command (not moved away)
    status,            \* "running" | "exited" | "panicked"
    calls              \* the completed wrapper calls: a bag of records

vars == <<target, debug_assertions, cmdline, cmd, cmd_owned, status, calls>>

----------------------------------------------------------------------------
(* Bounds of the model *)

MaxArgs == 1     \* arguments after the program name
MaxCalls == 3    \* calls recorded in one behaviour

----------------------------------------------------------------------------
(* The environment: targets, command lines, grammars *)

Targets == {"native", "wasm32"}

\* The file name of the program.
BinName == "prog"

\* An OsString: its text, and whether its bytes are valid UTF-8.
Os(s) == [s |-> s, utf8 |-> TRUE]
OsBytes(s) == [s |-> s, utf8 |-> FALSE]

\* The first argument: the path the program was started by, as its
\* components: "./prog", "..", and "./pr\xFFog", whose file name is not
\* valid UTF-8.
ProgPaths ==
    { <<Os("."), Os(BinName)>>, <<Os("..")>>, <<Os("."), OsBytes("pr?og")>> }

\* The items are valid UTF-8, as every item of UrlArgs (Strings) is.
IsUtf8(line) == \A i \in 1..Len(line[1]) : line[1][i].utf8

\* Arguments: "--version" is an unknown argument for a Command without a
\* version.
Tokens == {"--help", "--version", "-a"}

RECURSIVE SeqsUpTo(_)
SeqsUpTo(n) ==
    IF n = 0 THEN {<<>>}
    ELSE LET shorter == SeqsUpTo(n - 1)
         IN  shorter \cup {Append(s, t) : s \in {x \in shorter : Len(x) = n - 1}, t \in Tokens}

ArgVectors == {<<p>> \o s : p \in ProgPaths, s \in SeqsUpTo(MaxArgs)}

\* Command::new("Native and Web Program")
CommandName == "Native and Web Program"

\* Four grammars: a bare one, one with a version, one that requires an
\* argument, and one with contradictory settings.
Grammars ==
    { [version |-> FALSE, arg_required_else_help |-> FALSE, contradictory |-> FALSE],
      [version |-> TRUE,  arg_required_else_help |-> FALSE, contradictory |-> FALSE],
      [version |-> TRUE,  arg_required_else_help |-> TRUE,  contradictory |-> FALSE],
      [version |-> FALSE, arg_required_else_help |-> FALSE, contradictory |-> TRUE] }

\* A Command as the program defines it: its name, its grammar, and no binary
\* name yet ("" stands for None).
Commands ==
    { [name |-> CommandName, bin_name |-> "", version |-> g.version,
       arg_required_else_help |-> g.arg_required_else_help,
       contradictory |-> g.contradictory] : g \in Grammars }

\* Command::new: the Command as defined, whatever earlier calls stored in it.
Fresh(c) == [c EXCEPT !.bin_name = ""]

\* std::env::args_os(): the process argument vector (empty on wasm32).
ArgsOs == IF target = "native" THEN cmdline ELSE <<>>

\* cliw::url_args::UrlArgs::new(): the arguments derived from the page URL.
UrlArgsNew == IF target = "wasm32" THEN cmdline ELSE <<>>

----------------------------------------------------------------------------
(* Values *)

Ok(kind, val) == [tag |-> "Ok", kind |-> kind, val |-> val]
Err(kind, val) == [tag |-> "Err", kind |-> kind, val |-> val]
Panic == [tag |-> "Panic", kind |-> "", val |-> <<>>]
Exited == [tag |-> "Exit", kind |-> "", val |-> <<>>]

\* format!("{err}") / format!("{styled}"): the rendered text of a value.
Format(v) == <<"text", v.kind>> \o v.val

WriteEv(sink, text) == [ev |-> "write", sink |-> sink, text |-> text, code |-> 0]
ExitEv(code) == [ev |-> "exit", sink |-> "", text |-> <<>>, code |-> code]

\* cliw::output::print / cliw::output::eprint
OutputPrint(text) == WriteEv("success", text)
OutputEprint(text) == WriteEv("error", text)

IsDisplay(kind) == kind \in {"DisplayHelp", "DisplayVersion"}

----------------------------------------------------------------------------
(* The wrapped parser *)

RECURSIVE ParseFrom(_, _, _)
ParseFrom(c, rest, seen) ==
    IF rest = <<>> THEN Ok("ArgMatches", seen)
    ELSE LET t == Head(rest) IN
         CASE t = "--help" -> Err("DisplayHelp", <<>>)
           [] t = "--version" ->
                IF c.version THEN Err("DisplayVersion", <<>>)
                ELSE Err("UnknownArgument", <<t>>)
           [] t = "-a" ->
                IF seen = <<>> THEN ParseFrom(c, Tail(rest), <<"-a">>)
                ELSE Err("ArgumentConflict", <<t>>)
           [] OTHER -> Err("UnknownArgument", <<t>>)

\* clap::Command::try_get_matches_from(itr): the first item is the program name.
TryGetMatchesFrom(c, itr) ==
    IF debug_assertions /\ c.contradictory THEN Panic
    ELSE LET args == IF itr = <<>> THEN <<>> ELSE Tail(itr) IN
         IF c.arg_required_else_help /\ args = <<>>
         THEN Err("DisplayHelpOnMissingArgumentOrSubcommand", <<>>)
         ELSE ParseFrom(c, args, <<>>)

\* std::path::Path::file_name(): the last component of the path when it is
\* a normal one, None (the empty OsString) when the path is empty or ends in
\* "..", "." or the root.
FileName(path) ==
    IF path = <<>> THEN Os("")
    ELSE LET last == path[Len(path)] IN
         IF last.s \in {"..", ".", "/"} THEN Os("") ELSE last

\* OsStr::to_str(): the text when the bytes are valid UTF-8, else None ("").
ToStr(os) == IF os.utf8 THEN os.s ELSE ""

\* clap::Command::try_get_matches_from_mut(itr) keeps the file name of the
\* first item of itr in the Command as its binary name, when the item has a
\* file name, the file name is valid UTF-8 and no binary name is set already.
BinNameAfter(c, itr) ==
    IF itr # <<>> /\ ToStr(FileName(Head(itr))) # "" /\ c.bin_name = ""
    THEN [c EXCEPT !.bin_name = ToStr(FileName(Head(itr)))]
    ELSE c

\* clap::Parser::try_parse_from(itr): the matches turned into the user's struct.
TryParseFrom(c, itr) ==
    LET m == TryGetMatchesFrom(c, itr) IN
    IF m.tag = "Ok" THEN Ok("Opts", m.val) ELSE m


\* clap::Error::exit(): help and version go to stdout with status 0, every
\* other error to stderr with status 2.
ErrorExit(err) ==
    [ret |-> Exited,
     events |-> IF IsDisplay(err.kind)
                THEN <<WriteEv("success", Format(err)), ExitEv(0)>>
                ELSE <<WriteEv("error", Format(err)), ExitEv(2)>>]

Returned(v) == [ret |-> v, events |-> <<>>]

\* clap::Command::get_matches() and get_matches_mut(), as called on native.
ClapGetMatches(c) ==
    LET r == TryGetMatchesFrom(c, ArgsOs) IN
    IF r.tag = "Err" THEN ErrorExit(r) ELSE Returned(r)

\* clap::Parser::parse(), as called on native.
ClapParse(c) ==
    LET r == TryParseFrom(c, ArgsOs) IN
    IF r.tag = "Err" THEN ErrorExit(r) ELSE Returned(r)

\* clap::Command::render_help() / render_long_help(): builds the Command
\* (panicking where the debug assertions reject it) and renders the help,
\* whose usage line names the binary name if one is stored, else the name.
RenderHelp(c, long) ==
    IF debug_assertions /\ c.contradictory THEN Panic
    ELSE [tag |-> "Styled",
          kind |-> IF long THEN "LongHelp" ELSE "Help",
          val |-> <<"Usage:", IF c.bin_name # "" THEN c.bin_name ELSE c.name>>
                  \o (IF c.version THEN <<"--version">> ELSE <<>>)]

\* The call never returns: the panic unwinds before anything is written.
Panicked == [ret |-> Panic, events |-> <<>>]

\* clap::Command::print_help() / print_long_help(): the help is built, then
\* written to stdout, and the result of the write is returned.
ClapPrintHelp(c, long, stdout_ok) ==
    LET styled == RenderHelp(c, long) IN
    IF styled.tag = "Panic" THEN Panicked
    ELSE [ret |-> IF stdout_ok THEN Ok("Unit", <<>>) ELSE Err("Io", <<>>),
          events |-> <<WriteEv("success", Format(styled))>>]

----------------------------------------------------------------------------
(* impl WeCommand for Command: what each wrapper returns and causes *)

\* we_get_matches reading the process arguments on wasm32 as well.
we_get_matches_from_args_os ==
    IF target # "wasm32" THEN ClapGetMatches(cmd)
    ELSE LET command == TryGetMatchesFrom(cmd, ArgsOs) IN
         IF command.tag = "Err"
         THEN LET msg == Format(command) IN
              [ret |-> Exited,
               events |-> <<IF command.kind \in {"DisplayHelp", "DisplayVersion"}
                            THEN OutputPrint(msg)
                            ELSE OutputEprint(msg),
                            ExitEv(0)>>]
         ELSE Returned(command)

\* we_get_matches exiting with clap's status 2 after an error on wasm32.
we_get_matches_exit_code ==
    IF target # "wasm32" THEN ClapGetMatches(cmd)
    ELSE LET command == TryGetMatchesFrom(cmd, UrlArgsNew) IN
         IF command.tag = "Err"
         THEN LET msg == Format(command) IN
              IF command.kind \in {"DisplayHelp", "DisplayVersion"}
              THEN [ret |-> Exited, events |-> <<OutputPrint(msg), ExitEv(0)>>]
              ELSE [ret |-> Exited, events |-> <<OutputEprint(msg), ExitEv(2)>>]
         ELSE Returned(command)

we_get_matches ==
    IF target # "wasm32" THEN ClapGetMatches(cmd)
    ELSE LET command == TryGetMatchesFrom(cmd, UrlArgsNew) IN
         IF command.tag = "Err"
         THEN LET msg == Format(command) IN
              [ret |-> Exited,
               events |-> <<IF command.kind \in {"DisplayHelp", "DisplayVersion"}
                            THEN OutputPrint(msg)
                            ELSE OutputEprint(msg),
                            ExitEv(0)>>]
         ELSE Returned(command)

\* we_get_matches_mut printing every help-like kind to the success sink.
we_get_matches_mut_any_help ==
    IF target # "wasm32" THEN ClapGetMatches(cmd)
    ELSE LET command == TryGetMatchesFrom(cmd, UrlArgsNew) IN
         IF command.tag = "Err"
         THEN LET msg == Format(command) IN
              [ret |-> Exited,
               events |-> <<IF command.kind \in {"DisplayHelp", "DisplayVersion",
                                                 "DisplayHelpOnMissingArgumentOrSubcommand"}
                            THEN OutputPrint(msg)
                            ELSE OutputEprint(msg),
                            ExitEv(0)>>]
         ELSE Returned(command)

\* we_get_matches_mut exiting on wasm32 without printing the message.
we_get_matches_mut_no_write ==
    IF target # "wasm32" THEN ClapGetMatches(cmd)
    ELSE LET command == TryGetMatchesFrom(cmd, UrlArgsNew) IN
         IF command.tag = "Err"
         THEN [ret |-> Exited, events |-> <<ExitEv(0)>>]
         ELSE Returned(command)

\* we_get_matches_mut answering from the first parse once a call was made.
we_get_matches_mut_stateful ==
    IF BagCardinality(calls) > 0 THEN Returned(Ok("ArgMatches", <<>>))
    ELSE IF target # "wasm32" THEN ClapGetMatches(cmd)
    ELSE LET command == TryGetMatchesFrom(cmd, UrlArgsNew) IN
         IF command.tag = "Err"
         THEN LET msg == Format(command) IN
              [ret |-> Exited,
               events |-> <<IF command.kind \in {"DisplayHelp", "DisplayVersion"}
                            THEN OutputPrint(msg)
                            ELSE OutputEprint(msg),
                            ExitEv(0)>>]
         ELSE Returned(command)

we_get_matches_mut ==
    IF target # "wasm32" THEN ClapGetMatches(cmd)
    ELSE LET command == TryGetMatchesFrom(cmd, UrlArgsNew) IN
         IF command.tag = "Err"
         THEN LET msg == Format(command) IN
              [ret |-> Exited,
               events |-> <<IF command.kind \in {"DisplayHelp", "DisplayVersion"}
                            THEN OutputPrint(msg)
                            ELSE OutputEprint(msg),
                            ExitEv(0)>>]
         ELSE Returned(command)

\* we_try_get_matches handling a failure the way we_get_matches does.
we_try_get_matches_exiting ==
    IF target # "wasm32" THEN ClapGetMatches(cmd)
    ELSE LET command == TryGetMatchesFrom(cmd, UrlArgsNew) IN
         IF command.tag = "Err"
         THEN LET msg == Format(command) IN
              [ret |-> Exited,
               events |-> <<IF command.kind \in {"DisplayHelp", "DisplayVersion"}
                            THEN OutputPrint(msg)
                            ELSE OutputEprint(msg),
                            ExitEv(0)>>]
         ELSE Returned(command)

we_try_get_matches ==
    IF target # "wasm32" THEN Returned(TryGetMatchesFrom(cmd, ArgsOs))
    ELSE Returned(TryGetMatchesFrom(cmd, UrlArgsNew))

we_print_help(stdout_ok) ==
    IF target # "wasm32" THEN ClapPrintHelp(cmd, FALSE, stdout_ok)
    ELSE LET styled == RenderHelp(cmd, FALSE) IN
         IF styled.tag = "Panic" THEN Panicked
         ELSE [ret |-> Ok("Unit", <<>>), events |-> <<OutputPrint(Format(styled))>>]

we_print_long_help(stdout_ok) ==
    IF target # "wasm32" THEN ClapPrintHelp(cmd, TRUE, stdout_ok)
    ELSE LET styled == RenderHelp(cmd, TRUE) IN
         IF styled.tag = "Panic" THEN Panicked
         ELSE [ret |-> Ok("Unit", <<>>), events |-> <<OutputPrint(Format(styled))>>]

----------------------------------------------------------------------------
(* trait WeParser *)

\* we_parse printing every message with eprint.
we_parse_all_to_eprint ==
    IF target # "wasm32" THEN ClapParse(cmd)
    ELSE LET opts == TryParseFrom(cmd, UrlArgsNew) IN
         IF opts.tag = "Err"
         THEN LET msg == Format(opts) IN
              [ret |-> Exited, events |-> <<OutputEprint(msg), ExitEv(0)>>]
         ELSE Returned(opts)

we_parse ==
    IF target # "wasm32" THEN ClapParse(cmd)
    ELSE LET opts == TryParseFrom(cmd, UrlArgsNew) IN
         IF opts.tag = "Err"
         THEN LET msg == Format(opts) IN
              [ret |-> Exited,
               events |-> <<IF opts.kind \in {"DisplayHelp", "DisplayVersion"}
                            THEN OutputPrint(msg)
                            ELSE OutputEprint(msg),
                            ExitEv(0)>>]
         ELSE Returned(opts)

\* we_try_parse dropping the first URL argument before clap drops the program name.
we_try_parse_skips_first ==
    IF target = "wasm32"
    THEN Returned(TryParseFrom(cmd, IF UrlArgsNew = <<>> THEN <<>> ELSE Tail(UrlArgsNew)))
    ELSE Returned(TryParseFrom(cmd, ArgsOs))

\* we_try_parse reporting a help request as a plain usage error on wasm32.
we_try_parse_rewrites ==
    IF target = "wasm32"
    THEN LET r == TryParseFrom(cmd, UrlArgsNew) IN
         Returned(IF r.tag = "Err" /\ r.kind = "DisplayHelp"
                  THEN Err("DisplayHelpOnMissingArgumentOrSubcommand", r.val)
                  ELSE r)
    ELSE Returned(TryParseFrom(cmd, ArgsOs))

we_try_parse ==
    IF target = "wasm32" THEN Returned(TryParseFrom(cmd, UrlArgsNew))
    ELSE Returned(TryParseFrom(cmd, ArgsOs))

----------------------------------------------------------------------------
(* The process *)

CanCall == status = "running" /\ BagCardinality(calls) < MaxCalls

\* we_parse and we_try_parse are associated functions: no Command of the
\* caller is passed to them.
OnCommand(entry) == entry \notin {"we_parse", "we_try_parse"}

\* The call is over: it is recorded, and the process runs on, has exited or
\* has panicked.  A call on a Command is recorded with the binary name the
\* Command had when the call began, with whether the caller holds the Command
\* when it ended, and with the binary name the Command has then.
Complete(entry, stdout_ok, o) ==
    /\ calls' = calls (+) SetToBag({[entry |-> entry, target |-> target,
                                     stdout_ok |-> stdout_ok,
                                     bin_name |-> IF OnCommand(entry)
                                                  THEN cmd.bin_name ELSE "",
                                     owned_after |-> OnCommand(entry) /\ cmd_owned',
                                     bin_name_after |->
                                         IF OnCommand(entry) /\ cmd_owned'
                                         THEN cmd'.bin_name ELSE "",
                                     ret |-> o.ret, events |-> o.events]})
    /\ status' = CASE o.ret.tag = "Exit" -> "exited"
                   [] o.ret.tag = "Panic" -> "panicked"
                   [] OTHER -> "running"

\* A wasm32 build reads its arguments from UrlArgs, whose items are Strings.
CanSupply(t, line) == t = "wasm32" => IsUtf8(line)

Init ==
    /\ target \in Targets
    /\ cmd \in Commands
    /\ debug_assertions \in (IF cmd.contradictory THEN BOOLEAN ELSE {TRUE})
    /\ cmdline \in {line \in ArgVectors : CanSupply(target, line)}
    /\ cmd_owned = TRUE
    /\ status = "running"
    /\ calls = EmptyBag

\* fn we_get_matches(self): the Command is moved into the call.
WeGetMatches ==
    /\ CanCall /\ cmd_owned
    /\ cmd_owned' = FALSE
    /\ UNCHANGED <<target, debug_assertions, cmdline, cmd>>
    /\ Complete("we_get_matches", TRUE, we_get_matches)

\* fn we_get_matches_mut(&mut self): the Command stays with the caller, with
\* the binary name clap's parse stored in it.
WeGetMatchesMut ==
    /\ CanCall /\ cmd_owned
    /\ cmd' = BinNameAfter(cmd, IF target # "wasm32" THEN ArgsOs ELSE UrlArgsNew)
    /\ UNCHANGED <<target, debug_assertions, cmdline, cmd_owned>>
    /\ Complete("we_get_matches_mut", TRUE, we_get_matches_mut)

\* fn we_try_get_matches(self)
WeTryGetMatches ==
    /\ CanCall /\ cmd_owned
    /\ cmd_owned' = FALSE
    /\ UNCHANGED <<target, debug_assertions, cmdline, cmd>>
    /\ Complete("we_try_get_matches", TRUE, we_try_get_matches)

\* fn we_print_help(&mut self)
WePrintHelp ==
    /\ CanCall /\ cmd_owned
    /\ UNCHANGED <<target, debug_assertions, cmdline, cmd, cmd_owned>>
    /\ \E stdout_ok \in BOOLEAN :
          Complete("we_print_help", stdout_ok, we_print_help(stdout_ok))

\* fn we_print_long_help(&mut self)
WePrintLongHelp ==
    /\ CanCall /\ cmd_owned
    /\ UNCHANGED <<target, debug_assertions, cmdline, cmd, cmd_owned>>
    /\ \E stdout_ok \in BOOLEAN :
          Complete("we_print_long_help", stdout_ok, we_print_long_help(stdout_ok))

\* fn we_parse<T>() -> T: an associated function, no Command is passed.
WeParse ==
    /\ CanCall
    /\ UNCHANGED <<target, debug_assertions, cmdline, cmd, cmd_owned>>
    /\ Complete("we_parse", TRUE, we_parse)

\* fn we_try_parse<T>() -> Result<T, Error>
WeTryParse ==
    /\ CanCall
    /\ UNCHANGED <<target, debug_assertions, cmdline, cmd, cmd_owned>>
    /\ Complete("we_try_parse", TRUE, we_try_parse)

\* The program defines its Command again (Command::new) after a move.
NewCommand ==
    /\ status = "running" /\ ~cmd_owned
    /\ cmd_owned' = TRUE
    /\ cmd' = Fresh(cmd)
    /\ UNCHANGED <<target, debug_assertions, cmdline, status, calls>>

\* The same program, built for target t, is started on the same command line.
Start(t) ==
    /\ CanSupply(t, cmdline)
    /\ target' = t
    /\ status' = "running"
    /\ cmd_owned' = TRUE
    /\ cmd' = Fresh(cmd)
    /\ UNCHANGED <<debug_assertions, cmdline, calls>>

Next ==
    \/ WeGetMatches
    \/ WeGetMatchesMut
    \/ WeTryGetMatches
    \/ WePrintHelp
    \/ WePrintLongHelp
    \/ WeParse
    \/ WeTryParse
    \/ NewCommand
    \/ \E t \in Targets : Start(t)

Spec == Init /\ [][Next]_vars

----------------------------------------------------------------------------
(* Properties *)

Calls == BagToSet(calls)

Terminating == {"we_get_matches", "we_get_matches_mut", "we_parse"}
NonTerminating == {"we_try_get_matches", "we_try_parse"}
Printing == {"we_print_help", "we_print_long_help"}

\* What the wrapped parser answers for this grammar and command line.
Wrapped(entry) ==
    IF entry \in {"we_parse", "we_try_parse"}
    THEN TryParseFrom(cmd, cmdline)
    ELSE TryGetMatchesFrom(cmd, cmdline)

\* clap's debug assertions accept the Command (always so in a release build).
PassesAssertions == ~(debug_assertions /\ cmd.contradictory)

Writes(c, sink) == {i \in 1..Len(c.events) : c.events[i].ev = "write" /\ c.events[i].sink = sink}
Exits(c) == {i \in 1..Len(c.events) : c.events[i].ev = "exit"}

\* C1 as stated: for every grammar, every argument sequence and both targets
\* a non-terminating entry point returns a result value (Ok or Err) to its
\* caller and ends nothing.
C1_ReturnsForEveryGrammar ==
    \A c \in Calls :
        c.entry \in NonTerminating =>
            c.ret.tag \in {"Ok", "Err"} /\ Exits(c) = {}

\* C1 amended: a non-terminating entry point never exits the process, for any
\* grammar; and for every grammar that passes clap's debug assertions it
\* returns a result value, also on a parse failure or a help/version flag;
\* for a grammar the assertions reject it panics.
C1_TryNeverExits ==
    \A c \in Calls :
        c.entry \in NonTerminating =>
            /\ Exits(c) = {}
            /\ c.ret.tag # "Exit"
            /\ PassesAssertions => c.ret.tag \in {"Ok", "Err"}
            /\ ~PassesAssertions => c.ret = Panic

C1_Witness ==
    \E c, d \in Calls :
        /\ c.entry = "we_try_get_matches" /\ c.target = "wasm32"
        /\ c.ret.tag = "Err" /\ c.ret.kind = "DisplayHelp"
        /\ d.entry = "we_try_parse" /\ d.target = "native"
        /\ d.ret.tag = "Err" /\ d.ret.kind = "DisplayHelp"

\* C2: a terminating entry point that meets DisplayHelp or DisplayVersion
\* writes the message to the success sink and nothing to the error sink, on
\* both targets.
C2_HelpVersionToSuccessSink ==
    \A c \in Calls :
        LET r == Wrapped(c.entry) IN
        (c.entry \in Terminating /\ r.tag = "Err" /\ IsDisplay(r.kind)) =>
            /\ \E i \in Writes(c, "success") : c.events[i].text = Format(r)
            /\ Writes(c, "error") = {}

C2_Witness ==
    \E c, d \in Calls :
        /\ c.entry = "we_parse" /\ c.target = "wasm32"
        /\ Wrapped(c.entry).kind = "DisplayVersion" /\ Writes(c, "success") # {}
        /\ d.entry \in Terminating /\ d.target = "native"
        /\ Writes(d, "success") # {}

\* C3: a terminating entry point that meets a failure of any other kind
\* writes the message to the error sink and nothing to the success sink.
C3_OtherFailuresToErrorSink ==
    \A c \in Calls :
        LET r == Wrapped(c.entry) IN
        (c.entry \in Terminating /\ r.tag = "Err" /\ ~IsDisplay(r.kind)) =>
            /\ \E i \in Writes(c, "error") : c.events[i].text = Format(r)
            /\ Writes(c, "success") = {}

C3_Witness ==
    \E c, d \in Calls :
        /\ c.entry = "we_get_matches_mut" /\ c.target = "wasm32"
        /\ Wrapped(c.entry).kind = "DisplayHelpOnMissingArgumentOrSubcommand"
        /\ Writes(c, "error") # {}
        /\ d.entry \in Terminating /\ d.target = "native"
        /\ Wrapped(d.entry).kind = "DisplayHelpOnMissingArgumentOrSubcommand"
        /\ Writes(d, "error") # {}

Matching ==
    { <<"we_get_matches", "we_try_get_matches">>,
      <<"we_get_matches_mut", "we_try_get_matches">>,
      <<"we_parse", "we_try_parse">> }

\* C4: when parsing succeeds, a terminating entry point returns what the
\* matching non-terminating entry point returns as Ok.
C4_TerminatingAgreesWithTry ==
    \A c, d \in Calls :
        (<<c.entry, d.entry>> \in Matching /\ d.ret.tag = "Ok") => c.ret = d.ret

C4_Witness ==
    \E c, d \in Calls :
        /\ c.entry = "we_get_matches" /\ d.entry = "we_try_get_matches"
        /\ c.target = "wasm32" /\ d.target = "wasm32"
        /\ d.ret = Ok("ArgMatches", <<"-a">>) /\ c.ret = d.ret

\* C5: the same entry point, run on the native argument vector and on the
\* URL-derived sequence with the same grammar and logical arguments, yields
\* the same parsed result and the same success or failure.
C5_SourceIndependent ==
    \A c, d \in Calls :
        (c.entry = d.entry /\ c.entry \in Terminating \cup NonTerminating
            /\ c.target # d.target) => c.ret = d.ret

C5_Witness ==
    \E c, d \in Calls :
        /\ c.entry = "we_try_parse" /\ d.entry = "we_try_parse"
        /\ c.target = "native" /\ d.target = "wasm32"
        /\ c.ret = Ok("Opts", <<"-a">>) /\ d.ret = c.ret

\* C6: a terminating entry point returns only when parsing succeeded; on a
\* parse failure it writes the message to exactly one sink, then exits, and
\* never hands the failure to its caller.
C6_WriteThenExit ==
    \A c \in Calls :
        LET r == Wrapped(c.entry) IN
        c.entry \in Terminating =>
            /\ c.ret.tag # "Err"
            /\ c.ret.tag = "Ok" => (r.tag = "Ok" /\ c.events = <<>>)
            /\ r.tag = "Err" =>
                  /\ c.ret.tag = "Exit"
                  /\ Len(c.events) = 2
                  /\ c.events[1].ev = "write"
                  /\ c.events[2].ev = "exit"

C6_Witness ==
    \E c, d \in Calls :
        /\ c.entry = "we_get_matches_mut" /\ c.target = "wasm32"
        /\ c.ret.tag = "Exit" /\ Len(c.events) = 2
        /\ d.entry \in Terminating /\ d.target = "native" /\ d.ret.tag = "Exit"

\* C7: a non-terminating entry point returns exactly what the wrapped parser
\* answers on the selected source: its error as Err, its value as Ok.
C7_ErrorUnchanged ==
    \A c \in Calls :
        LET r == Wrapped(c.entry) IN
        (c.entry \in NonTerminating /\ r.tag \in {"Ok", "Err"}) =>
            c.ret = r /\ c.events = <<>>

C7_Witness ==
    \E c, d \in Calls :
        /\ c.entry = "we_try_parse" /\ c.target = "wasm32"
        /\ c.ret = Err("DisplayVersion", <<>>)
        /\ d.entry = "we_try_get_matches" /\ d.target = "native"
        /\ d.ret = Err("DisplayVersion", <<>>)

\* C8: we_print_help and we_print_long_help write the rendered help to the
\* success sink; on wasm32 they always return Ok(()), whatever happens in the
\* output sink; on native they return the result of the write.
C8_AlwaysReturns ==
    \A c \in Calls :
        c.entry \in Printing =>
            /\ Writes(c, "success") # {} /\ Writes(c, "error") = {}
            /\ c.target = "wasm32" => c.ret = Ok("Unit", <<>>)
            /\ c.target = "native" =>
                  c.ret = IF c.stdout_ok THEN Ok("Unit", <<>>) ELSE Err("Io", <<>>)

\* C9: on wasm32 every exit caused by a terminating entry point has status
\* 0, for a help or version display and for a parse error alike.
C9_WasmExitStatusZero ==
    \A c \in Calls :
        (c.entry \in Terminating /\ c.target = "wasm32") =>
            \A i \in Exits(c) : c.events[i].code = 0

C9_Witness ==
    \E c, d \in Calls :
        /\ c.entry = "we_get_matches" /\ c.target = "wasm32"
        /\ Wrapped(c.entry).kind = "UnknownArgument" /\ Exits(c) # {}
        /\ d.entry = "we_parse" /\ d.target = "wasm32"
        /\ Wrapped(d.entry).kind = "UnknownArgument" /\ Exits(d) # {}

\* C10 as stated: no state is kept between calls: calls of the same entry
\* point on the same target (and the same state of the output sink) have the
\* same result and the same writes, whatever was called before, and the
\* Command is still held by the caller after we_get_matches_mut returns.
C10_NothingRetained ==
    \A c, d \in Calls :
        /\ (c.entry = d.entry /\ c.target = d.target /\ c.stdout_ok = d.stdout_ok)
              => (c.ret = d.ret /\ c.events = d.events)
        /\ (c.entry = "we_get_matches_mut" /\ c.ret.tag = "Ok") => c.owned_after

\* The binary name a parse on this command line stores in a Command that has
\* none: the file name of the first argument, if it has one that is valid
\* UTF-8.
StoredName ==
    LET first == cmdline[1]
        last == first[Len(first)]
    IN  IF last.s \notin {"..", ".", "/"} /\ last.utf8 THEN last.s ELSE ""

\* The name a help text names in its usage line.
UsageName(c) == c.events[1].text[4]

\* C10 amended: the parsing entry points have the same outcome whatever was
\* called before, and the Command is still held after we_get_matches_mut
\* returns.  The Command carries one thing between calls: we_get_matches_mut
\* on a Command without a binary name stores the file name of the first
\* argument in it, if that is valid UTF-8, and no other call changes it; the
\* help printed by we_print_help and we_print_long_help names the stored
\* binary name, else the Command's name, and is the same for the same stored
\* name.
C10_Stateless ==
    \A c, d \in Calls :
        /\ (c.entry = d.entry /\ c.target = d.target /\ c.stdout_ok = d.stdout_ok
              /\ (c.entry \in Printing => c.bin_name = d.bin_name))
              => (c.ret = d.ret /\ c.events = d.events)
        /\ (c.entry = "we_get_matches_mut" /\ c.ret.tag = "Ok") =>
              /\ c.owned_after
              /\ c.bin_name_after = IF c.bin_name # "" THEN c.bin_name ELSE StoredName
        /\ (c.entry \in Printing /\ c.ret.tag # "Panic") =>
              /\ c.owned_after
              /\ c.bin_name_after = c.bin_name
              /\ UsageName(c) = IF c.bin_name # "" THEN c.bin_name ELSE CommandName
        /\ (c.entry \in Printing /\ c.bin_name # "") =>
              \E m \in Calls : /\ m.entry = "we_get_matches_mut"
                                /\ m.target = c.target /\ m.ret.tag = "Ok"
                                /\ m.bin_name_after = c.bin_name

C10_Witness ==
    \E c, d, p \in Calls :
        /\ c.entry = "we_get_matches_mut" /\ c.ret = Ok("ArgMatches", <<"-a">>)
        /\ c.bin_name = "" /\ c.bin_name_after = BinName
        /\ d.entry = "we_get_matches_mut" /\ d.target = c.target
        /\ d.bin_name = BinName /\ d.ret = c.ret
        /\ p.entry = "we_print_help" /\ p.target = c.target
        /\ p.bin_name = BinName /\ p.ret.tag = "Ok" /\ UsageName(p) = BinName
        /\ cmd_owned

\* A first argument whose file name is not valid UTF-8 is not stored: the
\* help printed after we_get_matches_mut still names the Command.
C10_NotStoredWitness ==
    \E c, p \in Calls :
        /\ ~IsUtf8(cmdline)
        /\ c.entry = "we_get_matches_mut" /\ c.ret.tag = "Ok"
        /\ c.bin_name_after = ""
        /\ p.entry = "we_print_help" /\ p.ret.tag = "Ok"
        /\ UsageName(p) = CommandName

=============================================================================
